---- MODULE Spec2Model ----
(***************************************************************************)
(* Printer connectivity subsystem of BambuAgent:                           *)
(*   backend/app/services/bambu_service.py     (BambuService)              *)
(*   backend/app/services/printer_discovery.py (PrinterDiscoveryService)   *)
(*                                                                         *)
(* Optional values (Python None / a missing dict key) are sequences of     *)
(* length 0 or 1: <<>> is "absent", <<v>> is "present with value v".       *)
(***************************************************************************)
EXTENDS Integers, Sequences, FiniteSets, TLC

VARIABLES
    printer_ip,      \* BambuService.printer_ip is configured (truthy)
    access_code,     \* BambuService.access_code is configured (truthy)
    device_serial,   \* BambuService.device_serial
    mqtt_client,     \* BambuService.mqtt_client: 0 is None, else a client id
    clients,         \* every paho client object ever created, by id
    printer_status,  \* BambuService.printer_status (the telemetry cache)
    clock,           \* datetime.now(), as the number of stamps handed out
    events,          \* history: every snapshot built from one inbound message
    stored,          \* history: the message whose snapshot was assigned last
    log,             \* history: what each send_print_job did to the FTP server and the link
    nextJob,         \* number of uuid4 job identifiers generated so far
    pc,              \* per caller task: where it is suspended
    loc,             \* per caller task: locals of the suspended call
    ret,             \* history: the outcome of the call that returned last
    \* PrinterDiscoveryService and its network
    local_octet,     \* last octet of _get_local_ip(), 0 when it returns None
    reachable,       \* <<host octet, port>> pairs that accept a TCP connection
    adverts,         \* the service advertisements on the network
    printers,        \* listener.printers
    discovered_event,\* listener.discovered_event is set
    zeroconf,        \* self.zeroconf: "none", "open" or "closed"
    pending_ads,     \* advertisements the browsers have not handled yet
    bhold,           \* per browser thread: the printer add_service is about to append
    dpc,             \* where discover_printers is
    scan_next,       \* index in scan_tasks of the first task still waiting
    scan_dead,       \* probes in flight that will fail or time out
    scan_live,       \* indices of the probes in flight that will connect
    scan_hold,       \* the printer _check_bambu_printer is about to append
    result,          \* history: the list discover_printers returned last
    drops,           \* addresses that do not accept stay silent: a probe of
                     \* one ends by its timeout (else it is refused at once)
    elapsed,         \* seconds since the last call of discover_printers began,
                     \* standing still while no call runs
    deadline,        \* when the wait_for or the sleep of discover_printers ends
    scan_aged,       \* failing probes in flight for a full probe timeout
    last_find,       \* history: when the last printer was appended
    other,           \* a second call of discover_printers on the same service,
                     \* begun while the first is suspended: where it is, when
                     \* its wait or sleep ends, and what it returned
    blocking         \* the task whose blocking library call holds the event
                     \* loop's thread, with the call; Absent when none does

linkVars == <<printer_ip, access_code, device_serial, mqtt_client, clients,
              printer_status, clock, events, stored, log, nextJob, pc, loc, ret>>

discVars == <<local_octet, reachable, adverts, printers, discovered_event, zeroconf,
              pending_ads, bhold, dpc, scan_next, scan_dead, scan_live, scan_hold,
              result, drops, elapsed, deadline, scan_aged,
              last_find, other>>

vars == <<linkVars, discVars, blocking>>

----------------------------------------------------------------------------
(* Bounds of the model *)

MaxClients == 2
MaxMsgs == 2
MaxJobs == 2
NumTasks == 2

Tasks == 1..NumTasks
ClientIds == 1..MaxClients
None == 0

----------------------------------------------------------------------------
(* Telemetry payloads *)

Some(v) == <<v>>
Absent == <<>>

\* dict.get(key, default)
Get(d, key, default) == IF d[key] = Absent THEN default ELSE d[key][1]

\* Python truthiness of dict.get(key) for a string-valued key
Truthy(d, key) == d[key] # Absent /\ d[key][1] # ""

EmptyPrint ==
    [gcode_state |-> Absent, mc_percent |-> Absent, bed_temper |-> Absent,
     nozzle_temper |-> Absent, subtask_name |-> Absent, layer_num |-> Absent,
     total_layer_num |-> Absent]

GcodeStates == {"RUNNING", "PAUSE", "FINISH", "FAILED", "", "IDLE"}

\* "print" sections of a report, every key optional: one per state code
\* (and one without), and the job fields in every combination
StateDicts ==
    {[EmptyPrint EXCEPT !.gcode_state = g] : g \in {Absent} \cup {Some(x) : x \in GcodeStates}}

JobDicts ==
    {[EmptyPrint EXCEPT !.gcode_state = Some("RUNNING"), !.mc_percent = p,
                        !.subtask_name = n, !.layer_num = l, !.total_layer_num = l,
                        !.bed_temper = p, !.nozzle_temper = p] :
        p \in {Absent, Some(42)}, n \in {Absent, Some(""), Some("Vase")},
        l \in {Absent, Some(3)}}

\* mc_percent values outside of 0..100
RangeDicts ==
    {[EmptyPrint EXCEPT !.gcode_state = Some("RUNNING"), !.mc_percent = Some(p)] :
        p \in {-1, 150}}

PrintDicts == StateDicts \cup JobDicts \cup RangeDicts

\* message bodies: bytes json.loads rejects ("garbage"), JSON that is not an
\* object ("scalar"), and objects whose "print" key is absent, is not an
\* object itself (isdict = FALSE) or is a dict
Bodies ==
    {[kind |-> "garbage", print |-> Absent], [kind |-> "scalar", print |-> Absent],
     [kind |-> "object", print |-> Absent],
     [kind |-> "object", print |-> Some([isdict |-> FALSE, d |-> EmptyPrint])]}
    \cup {[kind |-> "object", print |-> Some([isdict |-> TRUE, d |-> d])] : d \in PrintDicts}

ReportTopic(serial) == <<"device", serial, "report">>
RequestTopic(serial) == <<"device", serial, "request">>

\* `"report" in topic`, on a topic held as its path segments
ReportInTopic(topic) == \E i \in DOMAIN topic : topic[i] = "report"

\* (mutant) the FINISH branch is missing
get_printer_state_no_finish(print_data) ==
    LET gcode_state == Get(print_data, "gcode_state", "")
    IN  IF gcode_state = "RUNNING" THEN "printing"
        ELSE IF gcode_state = "PAUSE" THEN "paused"
        ELSE IF gcode_state = "FAILED" THEN "failed"
        ELSE "idle"

get_printer_state(print_data) ==
    LET gcode_state == Get(print_data, "gcode_state", "")
    IN  IF gcode_state = "RUNNING" THEN "printing"
        ELSE IF gcode_state = "PAUSE" THEN "paused"
        ELSE IF gcode_state = "FINISH" THEN "finished"
        ELSE IF gcode_state = "FAILED" THEN "failed"
        ELSE "idle"

\* (mutant) current_job is built whenever the subtask_name key is present
BuildStatusJobIfPresent(print_data, now) ==
    [status |-> get_printer_state(print_data),
     progress |-> Get(print_data, "mc_percent", 0),
     bed_temp |-> Get(print_data, "bed_temper", 0),
     nozzle_temp |-> Get(print_data, "nozzle_temper", 0),
     current_job |->
        IF print_data["subtask_name"] # Absent
        THEN Some([name |-> Get(print_data, "subtask_name", ""),
                   layer |-> Get(print_data, "layer_num", 0),
                   total_layers |-> Get(print_data, "total_layer_num", 0)])
        ELSE Absent,
     last_updated |-> now]

\* the dict built by _update_printer_status from print_data, stamped `now`
BuildStatus(print_data, now) ==
    [status |-> get_printer_state(print_data),
     progress |-> Get(print_data, "mc_percent", 0),
     bed_temp |-> Get(print_data, "bed_temper", 0),
     nozzle_temp |-> Get(print_data, "nozzle_temper", 0),
     current_job |->
        IF Truthy(print_data, "subtask_name")
        THEN Some([name |-> Get(print_data, "subtask_name", ""),
                   layer |-> Get(print_data, "layer_num", 0),
                   total_layers |-> Get(print_data, "total_layer_num", 0)])
        ELSE Absent,
     last_updated |-> now]

\* _on_mqtt_message up to the assignment of _update_printer_status: the new
\* cache entry, or Absent when an exception was raised and logged
\*   json.loads raises on garbage; payload.get raises on a non-object;
\*   payload.get("print", {}) is {} when the key is missing;
\*   print_data.get raises when "print" is not an object
DecodeAndBuild(msg, now) ==
    IF msg.body.kind = "garbage" THEN Absent
    ELSE IF ~ReportInTopic(msg.topic) THEN Absent
    ELSE IF msg.body.kind = "scalar" THEN Absent
    ELSE IF msg.body.print = Absent THEN Some(BuildStatus(EmptyPrint, now))
    ELSE IF ~msg.body.print[1].isdict THEN Absent
    ELSE Some(BuildStatus(msg.body.print[1].d, now))

InitialStatus == [status |-> "unknown"]

----------------------------------------------------------------------------
(* paho clients: created by connect_mqtt, driven by their network loop *)

NoClientRec == [st |-> "none", loop |-> FALSE, subs |-> {}, cb |-> Absent]

TypeOK ==
    /\ printer_ip \in BOOLEAN /\ access_code \in BOOLEAN
    /\ mqtt_client \in 0..MaxClients
    /\ clock \in 0..MaxMsgs
    /\ nextJob \in 0..MaxJobs

\* BambuService.__init__, for every configuration of the environment
LinkInit ==
    /\ printer_ip \in BOOLEAN
    /\ access_code \in BOOLEAN
    /\ device_serial \in {"default_serial", "SN1"}
    /\ mqtt_client = None
    /\ clients = [c \in ClientIds |-> NoClientRec]
    /\ printer_status = InitialStatus
    /\ clock = 0
    /\ events = {}
    /\ stored = Absent
    /\ log = <<>>
    /\ nextJob = 0
    /\ pc = [t \in Tasks |-> "idle"]
    /\ loc = [t \in Tasks |-> Absent]
    /\ ret = Absent

service_types == <<"_bambu._tcp.local.", "_printer._tcp.local.", "_ipp._tcp.local.",
                   "_http._tcp.local.">>

ServiceTypes == {service_types[i] : i \in DOMAIN service_types}

\* a call of discover_printers that is not running; `returned` is the list
\* it returned, Absent before its first return
IdleCall(returned) == [pc |-> "idle", deadline |-> 0, result |-> returned]

\* PrinterDiscoveryService.__init__ on a network given by scenario sc
DiscInit(sc) ==
    /\ local_octet = sc.local_octet
    /\ reachable = sc.reachable
    /\ adverts = sc.adverts
    /\ printers = <<>>
    /\ discovered_event = FALSE
    /\ zeroconf = "none"
    /\ pending_ads = {}
    /\ bhold = [b \in ServiceTypes |-> Absent]
    /\ dpc = "idle"
    /\ scan_next = 1
    /\ scan_dead = 0
    /\ scan_live = {}
    /\ scan_hold = Absent
    /\ result = Absent
    /\ drops = sc.drops
    /\ elapsed = 0
    /\ deadline = 0
    /\ scan_aged = 0
    /\ last_find = Absent
    /\ other = IdleCall(Absent)

\* a machine without network and nothing advertised
EmptyNetwork == [local_octet |-> 0, reachable |-> {}, adverts |-> {}, drops |-> FALSE]

Init == LinkInit /\ DiscInit(EmptyNetwork) /\ blocking = Absent

SubscriptionsAnyAck(subs, rc, serial) ==
    subs \cup {ReportTopic(serial)}

\* _on_mqtt_connect, the subscription: the report topic of the configured
\* serial, issued only when the acknowledgement carries result code 0
SubscriptionsAfterAck(subs, rc, serial) ==
    IF rc = 0 THEN subs \cup {ReportTopic(serial)} ELSE subs

\* the network loop's thread received CONNACK: _on_mqtt_connect(rc)
OnMqttConnect(c, rc) ==
    /\ clients[c].st = "connecting" /\ clients[c].loop /\ clients[c].cb = Absent
    /\ clients' = [clients EXCEPT ![c] =
            [@ EXCEPT !.st = IF rc = 0 THEN "connected" ELSE "refused",
                      !.subs = SubscriptionsAfterAck(@, rc, device_serial)]]
    /\ UNCHANGED <<printer_ip, access_code, device_serial, mqtt_client, printer_status,
                   clock, events, stored, log, nextJob, pc, loc, ret, discVars, blocking>>

\* _on_mqtt_message, first half: decode the payload and build the new entry
OnMqttMessageBegin(c, body) ==
    /\ clients[c].st = "connected" /\ clients[c].loop /\ clients[c].cb = Absent
    /\ clock < MaxMsgs
    /\ \E topic \in clients[c].subs :
        LET msg == [topic |-> topic, body |-> body]
            new == DecodeAndBuild(msg, clock + 1)
        IN  /\ clients' = [clients EXCEPT ![c].cb = Some([msg |-> msg, new |-> new])]
            /\ events' = IF new = Absent THEN events ELSE events \cup {new[1]}
    /\ clock' = clock + 1
    /\ UNCHANGED <<printer_ip, access_code, device_serial, mqtt_client, printer_status,
                   stored, log, nextJob, pc, loc, ret, discVars, blocking>>

\* (mutant) the entry is updated in place, key by key, and a reader gets in
\* before "status" is written
StoreStatusUpdate(old, new) ==
    IF "current_job" \in DOMAIN old /\ new.current_job = Absent
    THEN [new EXCEPT !.current_job = old.current_job]
    ELSE new

StoreStatusInPlace(old, new) == [new EXCEPT !.status = old.status]

\* the cache after the callback's assignment `self.printer_status = {...}`
StoreStatus(old, new) == new

\* _on_mqtt_message, second half: the assignment (or the except branch's log)
OnMqttMessageEnd(c) ==
    /\ clients[c].cb # Absent
    /\ printer_status' =
            IF clients[c].cb[1].new = Absent THEN printer_status
            ELSE StoreStatus(printer_status, clients[c].cb[1].new[1])
    /\ stored' = IF clients[c].cb[1].new = Absent THEN stored
                  ELSE Some(clients[c].cb[1].msg)
    /\ clients' = [clients EXCEPT ![c].cb = Absent]
    /\ UNCHANGED <<printer_ip, access_code, device_serial, mqtt_client,
                   clock, events, log, nextJob, pc, loc, ret, discVars, blocking>>

\* the connection is lost: _on_mqtt_disconnect only logs
OnMqttDisconnect(c) ==
    /\ clients[c].st \in {"connecting", "connected"} /\ clients[c].loop
    /\ clients[c].cb = Absent
    /\ clients' = [clients EXCEPT ![c].st = "dropped"]
    /\ UNCHANGED <<printer_ip, access_code, device_serial, mqtt_client, printer_status,
                   clock, events, stored, log, nextJob, pc, loc, ret, discVars, blocking>>

----------------------------------------------------------------------------
(* Caller tasks of the event loop.  A task runs without interruption by     *)
(* other tasks up to its next `await` that suspends (asyncio.sleep(2) in    *)
(* connect_mqtt); ftplib and paho's connect are blocking calls.             *)

\* the event loop's thread can run code of task t that starts with (or goes
\* on inside) the blocking call `call`: no blocking call holds the thread,
\* or t's own call of that kind does
LoopRuns(t, call) ==
    blocking = Absent \/ blocking = Some([task |-> t, call |-> call])

HasFreeClient == \E c \in ClientIds : clients[c].st = "none"
NewClient == CHOOSE c \in ClientIds :
                clients[c].st = "none" /\ \A d \in ClientIds : d < c => clients[d].st # "none"

\* (mutant) only the address is looked at
ConfiguredAddressOnly == printer_ip

\* `if not self.printer_ip or not self.access_code` is false
Configured == printer_ip /\ access_code

Return(op, ok, err, job, val) ==
    Some([op |-> op, ok |-> ok, err |-> err, job |-> job, val |-> val])

DisconnectedResult == [status |-> "disconnected", error |-> "Could not connect to printer"]

\* the state of the Device Link behind self.mqtt_client
LinkState == IF mqtt_client = None THEN "none" ELSE clients[mqtt_client].st

\* (mutant) an FTP object used without `with`: quit() is not reached when
\* login or STOR raises
FtpAfterNoWith(outcome) ==
    IF outcome = "connect" THEN "unopened" ELSE IF outcome = "ok" THEN "closed" ELSE "open"

\* the connection of the ftplib.FTP() object of one _upload_file_ftp when the
\* `with` block is left: __exit__ quits and closes it if it was opened
FtpAfter(outcome) == IF outcome = "connect" THEN "unopened" ELSE "closed"

\* entries of log, each tagged with the job identifier of its send_print_job:
\* the end of the FTP transfer (with the link's state at that moment, which is
\* when the command step is reached), a connect_mqtt made by the command
\* step, a call of mqtt_client.publish, and the return of send_print_job
UploadEvent(job, file, ok, outcome) ==
    [ev |-> "upload", job |-> job, file |-> file, ok |-> ok, link |-> LinkState,
     conn |-> FtpAfter(outcome)]
ConnectEvent(job, c, ok) == [ev |-> "connect", job |-> job, client |-> c, ok |-> ok]
ReturnEvent(job, name, ok, err) ==
    [ev |-> "return", job |-> job, name |-> name, ok |-> ok, err |-> err]

\* connect_mqtt lines 35-52 for a configured service: a new client object is
\* bound to self.mqtt_client before connect() is tried; when connect() raises
\* the handle stays bound and the loop is never started
ClientAfterConnect(ok) ==
    IF ok THEN [st |-> "connecting", loop |-> TRUE, subs |-> {}, cb |-> Absent]
    ELSE [st |-> "created", loop |-> FALSE, subs |-> {}, cb |-> Absent]

\* self.mqtt_client after connect_mqtt: line 35 binds the new client before
\* connect() is tried and no path unbinds it
HandleAfterConnect(ok) == NewClient

ConnectTry(ok) ==
    /\ Configured /\ HasFreeClient
    /\ clients' = [clients EXCEPT ![NewClient] = ClientAfterConnect(ok)]
    /\ mqtt_client' = HandleAfterConnect(ok)

\* await connect_mqtt() called directly, as scripts/test_pipeline.py does
ConnectMqttNotConfigured(t) ==
    /\ pc[t] = "idle" /\ blocking = Absent /\ ~Configured
    /\ ret' = Return("connect", FALSE, "", 0, Absent)
    /\ UNCHANGED <<printer_ip, access_code, device_serial, mqtt_client, clients,
                   printer_status, clock, events, stored, log, nextJob, pc, loc, discVars, blocking>>

ConnectMqttRaises(t) ==
    /\ pc[t] = "idle" /\ LoopRuns(t, "connect")
    /\ ConnectTry(FALSE)
    /\ log' = log
    /\ ret' = Return("connect", FALSE, "", 0, Absent)
    /\ UNCHANGED <<printer_ip, access_code, device_serial, printer_status, clock,
                   events, stored, nextJob, pc, loc, discVars>>
    /\ blocking' = Absent

ConnectMqttSleeps(t) ==
    /\ pc[t] = "idle" /\ LoopRuns(t, "connect")
    /\ ConnectTry(TRUE)
    /\ log' = log
    /\ pc' = [pc EXCEPT ![t] = "connect_sleep"]
    /\ UNCHANGED <<printer_ip, access_code, device_serial, printer_status, clock,
                   events, stored, nextJob, loc, ret, discVars>>
    /\ blocking' = Absent

ConnectMqttResume(t) ==
    /\ pc[t] = "connect_sleep" /\ blocking = Absent
    /\ pc' = [pc EXCEPT ![t] = "idle"]
    /\ ret' = Return("connect", TRUE, "", 0, Absent)
    /\ UNCHANGED <<printer_ip, access_code, device_serial, mqtt_client, clients,
                   printer_status, clock, events, stored, log, nextJob, loc, discVars, blocking>>

\* get_printer_status
GetStatusCached(t) ==
    /\ pc[t] = "idle" /\ blocking = Absent /\ mqtt_client # None
    /\ ret' = Return("status", TRUE, "", 0, Some(printer_status))
    /\ UNCHANGED <<printer_ip, access_code, device_serial, mqtt_client, clients,
                   printer_status, clock, events, stored, log, nextJob, pc, loc, discVars, blocking>>

GetStatusNotConfigured(t) ==
    /\ pc[t] = "idle" /\ blocking = Absent /\ mqtt_client = None /\ ~Configured
    /\ ret' = Return("status", TRUE, "", 0, Some(DisconnectedResult))
    /\ UNCHANGED <<printer_ip, access_code, device_serial, mqtt_client, clients,
                   printer_status, clock, events, stored, log, nextJob, pc, loc, discVars, blocking>>

GetStatusConnectRaises(t) ==
    /\ pc[t] = "idle" /\ LoopRuns(t, "connect") /\ mqtt_client = None
    /\ ConnectTry(FALSE)
    /\ log' = log
    /\ ret' = Return("status", TRUE, "", 0, Some(DisconnectedResult))
    /\ UNCHANGED <<printer_ip, access_code, device_serial, printer_status, clock,
                   events, stored, nextJob, pc, loc, discVars>>
    /\ blocking' = Absent

GetStatusConnectSleeps(t) ==
    /\ pc[t] = "idle" /\ LoopRuns(t, "connect") /\ mqtt_client = None
    /\ ConnectTry(TRUE)
    /\ log' = log
    /\ pc' = [pc EXCEPT ![t] = "status_sleep"]
    /\ UNCHANGED <<printer_ip, access_code, device_serial, printer_status, clock,
                   events, stored, nextJob, loc, ret, discVars>>
    /\ blocking' = Absent

GetStatusResume(t) ==
    /\ pc[t] = "status_sleep" /\ blocking = Absent
    /\ pc' = [pc EXCEPT ![t] = "idle"]
    /\ ret' = Return("status", TRUE, "", 0, Some(printer_status))
    /\ UNCHANGED <<printer_ip, access_code, device_serial, mqtt_client, clients,
                   printer_status, clock, events, stored, log, nextJob, loc, discVars, blocking>>

\* disconnect(): loop_stop() joins the loop's thread, so it returns only
\* when no callback of that client is running
\* (mutant) disconnect() that keeps self.mqtt_client
HandleKeptAfterDisconnect == mqtt_client

\* `self.mqtt_client = None`
HandleAfterDisconnect == None

\* the call returns nothing; ret keeps the link's state at the call
Disconnect(t) ==
    /\ pc[t] = "idle" /\ blocking = Absent
    /\ IF mqtt_client # None
       THEN /\ clients[mqtt_client].cb = Absent
            /\ clients' = [clients EXCEPT ![mqtt_client].st = "closed",
                                          ![mqtt_client].loop = FALSE]
            /\ mqtt_client' = HandleAfterDisconnect
       ELSE UNCHANGED <<clients, mqtt_client>>
    /\ ret' = Return("disconnect", TRUE, "", 0, Some([link |-> LinkState]))
    /\ UNCHANGED <<printer_ip, access_code, device_serial, printer_status, clock,
                   events, stored, log, nextJob, pc, loc, discVars, blocking>>

----------------------------------------------------------------------------
(* send_print_job *)

PrintNames == {"Vase", "Cube"}
FtpOutcomes == {"ok", "connect", "login", "stor"}

ErrNotFound == "File not found"
ErrConfig == "Printer IP or access code not configured"
ErrUpload == "Failed to upload file"
ErrMqtt == "Could not connect to MQTT"

\* the name _upload_file_ftp stores the file under
RemoteName(remote_name) == remote_name \o ".3mf"

\* (mutant) the except branch of _upload_file_ftp logs without re-raising
UploadSwallowed(outcome) == FALSE

\* _upload_file_ftp raises when ftp.connect, ftp.login or ftp.storbinary fails
UploadRaises(outcome) == outcome # "ok"

\* (mutant) the command names the file without its extension
PrintCommandNoExt(filename, job_id) ==
    [command |-> "project_file", param |-> filename,
     sequence_id |-> job_id, user_id |-> "BambuAgent"]

\* the command dict of _send_print_command
PrintCommand(filename, job_id) ==
    [command |-> "project_file", param |-> filename \o ".3mf",
     sequence_id |-> job_id, user_id |-> "BambuAgent"]

\* self.mqtt_client.publish(topic, payload) on client c; paho hands the
\* message to the socket only when the client has one (link = "connected")
PublishEvent(c, link, filename, job_id) ==
    [ev |-> "publish", job |-> job_id, client |-> c, link |-> link,
     topic |-> RequestTopic(device_serial), cmd |-> PrintCommand(filename, job_id)]

\* `if not self.mqtt_client` at the head of _send_print_command
NeedsConnect == mqtt_client = None

NewJob == nextJob + 1

\* (mutant) the configuration is looked at before the file
FirstErrorConfigFirst(exists, configured) ==
    IF ~configured THEN ErrConfig ELSE IF ~exists THEN ErrNotFound ELSE ""

\* the two checks that open send_print_job, in their order: "" when both pass
FirstError(exists, configured) ==
    IF ~exists THEN ErrNotFound ELSE IF ~configured THEN ErrConfig ELSE ""

\* ret keeps, with a rejection, whether the file of the call existed
SubmitFileNotFound(t) ==
    /\ pc[t] = "idle" /\ blocking = Absent
    /\ FirstError(FALSE, Configured) # ""
    /\ ret' = Return("submit", FALSE, FirstError(FALSE, Configured), 0,
                     Some([exists |-> FALSE]))
    /\ UNCHANGED <<printer_ip, access_code, device_serial, mqtt_client, clients,
                   printer_status, clock, events, stored, log, nextJob, pc, loc, discVars, blocking>>

SubmitNotConfigured(t) ==
    /\ pc[t] = "idle" /\ blocking = Absent
    /\ FirstError(TRUE, Configured) # ""
    /\ ret' = Return("submit", FALSE, FirstError(TRUE, Configured), 0,
                     Some([exists |-> TRUE]))
    /\ UNCHANGED <<printer_ip, access_code, device_serial, mqtt_client, clients,
                   printer_status, clock, events, stored, log, nextJob, pc, loc, discVars, blocking>>

SubmitUploadFails(t, name, outcome) ==
    /\ pc[t] = "idle" /\ LoopRuns(t, "ftp") /\ Configured /\ nextJob < MaxJobs
    /\ UploadRaises(outcome)
    /\ nextJob' = NewJob
    /\ log' = log \o <<UploadEvent(NewJob, RemoteName(name), FALSE, outcome),
                        ReturnEvent(NewJob, name, FALSE, ErrUpload)>>
    /\ ret' = Return("submit", FALSE, ErrUpload, NewJob, Absent)
    /\ UNCHANGED <<printer_ip, access_code, device_serial, mqtt_client, clients,
                   printer_status, clock, events, stored, pc, loc, discVars>>
    /\ blocking' = Absent

\* the upload went through and a client handle exists: publish at once
SubmitPublishExisting(t, name, outcome) ==
    /\ pc[t] = "idle" /\ LoopRuns(t, "ftp") /\ Configured /\ nextJob < MaxJobs
    /\ ~UploadRaises(outcome)
    /\ ~NeedsConnect
    /\ nextJob' = NewJob
    /\ log' = log \o <<UploadEvent(NewJob, RemoteName(name), outcome = "ok", outcome),
                        PublishEvent(mqtt_client, clients[mqtt_client].st, name, NewJob),
                        ReturnEvent(NewJob, name, TRUE, "")>>
    /\ ret' = Return("submit", TRUE, "", NewJob, Absent)
    /\ UNCHANGED <<printer_ip, access_code, device_serial, mqtt_client, clients,
                   printer_status, clock, events, stored, pc, loc, discVars>>
    /\ blocking' = Absent

\* no handle: connect_mqtt is awaited, its connect() raises and it returns
\* False without suspending; then the second `if not self.mqtt_client`
SubmitConnectRaises(t, name, outcome) ==
    /\ pc[t] = "idle" /\ LoopRuns(t, "ftp") /\ Configured /\ nextJob < MaxJobs
    /\ ~UploadRaises(outcome)
    /\ NeedsConnect
    /\ ConnectTry(FALSE)
    /\ nextJob' = NewJob
    /\ IF mqtt_client' = None
       THEN /\ ret' = Return("submit", FALSE, ErrMqtt, NewJob, Absent)
            /\ log' = log \o <<UploadEvent(NewJob, RemoteName(name), outcome = "ok", outcome),
                                ConnectEvent(NewJob, NewClient, FALSE),
                                ReturnEvent(NewJob, name, FALSE, ErrMqtt)>>
       ELSE /\ ret' = Return("submit", TRUE, "", NewJob, Absent)
            /\ log' = log \o <<UploadEvent(NewJob, RemoteName(name), outcome = "ok", outcome),
                                ConnectEvent(NewJob, NewClient, FALSE),
                                PublishEvent(mqtt_client', clients'[mqtt_client'].st,
                                             name, NewJob),
                                ReturnEvent(NewJob, name, TRUE, "")>>
    /\ UNCHANGED <<printer_ip, access_code, device_serial, printer_status, clock,
                   events, stored, pc, loc, discVars>>
    /\ blocking' = Absent

\* no handle: connect_mqtt connects, starts the loop and sleeps 2 seconds
SubmitConnectSleeps(t, name, outcome) ==
    /\ pc[t] = "idle" /\ LoopRuns(t, "ftp") /\ Configured /\ nextJob < MaxJobs
    /\ ~UploadRaises(outcome)
    /\ NeedsConnect
    /\ ConnectTry(TRUE)
    /\ nextJob' = NewJob
    /\ log' = log \o <<UploadEvent(NewJob, RemoteName(name), outcome = "ok", outcome),
                        ConnectEvent(NewJob, NewClient, TRUE)>>
    /\ pc' = [pc EXCEPT ![t] = "submit_sleep"]
    /\ loc' = [loc EXCEPT ![t] = Some([job |-> NewJob, name |-> name])]
    /\ UNCHANGED <<printer_ip, access_code, device_serial, printer_status, clock,
                   events, stored, ret, discVars>>
    /\ blocking' = Absent

\* after the sleep: the second `if not self.mqtt_client`, then the publish
SubmitResume(t) ==
    /\ pc[t] = "submit_sleep" /\ blocking = Absent
    /\ pc' = [pc EXCEPT ![t] = "idle"]
    /\ loc' = [loc EXCEPT ![t] = Absent]
    /\ IF mqtt_client = None
       THEN /\ ret' = Return("submit", FALSE, ErrMqtt, loc[t][1].job, Absent)
            /\ log' = Append(log, ReturnEvent(loc[t][1].job, loc[t][1].name, FALSE, ErrMqtt))
       ELSE /\ ret' = Return("submit", TRUE, "", loc[t][1].job, Absent)
            /\ log' = log \o <<PublishEvent(mqtt_client, clients[mqtt_client].st,
                                             loc[t][1].name, loc[t][1].job),
                                ReturnEvent(loc[t][1].job, loc[t][1].name, TRUE, "")>>
    /\ UNCHANGED <<printer_ip, access_code, device_serial, mqtt_client, clients,
                   printer_status, clock, events, stored, nextJob, discVars, blocking>>

----------------------------------------------------------------------------
(* PrinterDiscoveryService: discover_printers, the network scan run on the   *)
(* event loop, and add_service run by the ServiceBrowser threads             *)

ScanRadius == 25
ScanSlots == 20
FirstOctet == 1
OctetLimit == 255
bambu_ports == <<8883, 1883, 80, 443>>

Max2(a, b) == IF a > b THEN a ELSE b
Min2(a, b) == IF a < b THEN a ELSE b

NetworkBase == "192.168.1"
IpOf(octet) == NetworkBase \o "." \o ToString(octet)

\* BambuPrinter.__init__
BambuPrinter(name, ip, port, model) ==
    [name |-> name, ip |-> ip, port |-> port, model |-> model,
     id |-> ip \o ":" \o ToString(port)]

\* range(start_range, end_range) of _scan_network_range
start_range(o) == Max2(FirstOctet, o - ScanRadius)
end_range(o) == Min2(OctetLimit, o + ScanRadius)

\* scan_tasks: for each host of the range, in order, one probe per port
ScanTaskCount(o) ==
    IF o = 0 THEN 0 ELSE (end_range(o) - start_range(o)) * Len(bambu_ports)
ScanTask(o, k) ==
    <<start_range(o) + ((k - 1) \div Len(bambu_ports)),
      bambu_ports[((k - 1) % Len(bambu_ports)) + 1]>>

\* (mutant) limited_scan awaits the probe without the semaphore
AdmitsAll(waiting, inflight) == waiting

\* asyncio.Semaphore(20): how many of the waiting limited_scan tasks get in
\* while `inflight` probes hold it
SemaphoreAdmits(waiting, inflight) == Min2(waiting, Max2(0, ScanSlots - inflight))

InFlight == scan_dead + Cardinality(scan_live)

\* the scan after a probe left the semaphore (or at its start): with `dead`
\* and `live` still in flight the semaphore hands its free slots to the
\* tasks that wait, in the order of scan_tasks
ScanAdmit(dead, live) ==
    LET n == SemaphoreAdmits(ScanTaskCount(local_octet) - scan_next + 1,
                             dead + Cardinality(live))
        idx == scan_next..(scan_next + n - 1)
        conn == {k \in idx : ScanTask(local_octet, k) \in reachable}
    IN  /\ scan_next' = scan_next + n
        /\ scan_live' = live \cup conn
        /\ scan_dead' = dead + (n - Cardinality(conn))

\* `any(p.ip == printer.ip for p in self.printers)`
Known(ip) == \E i \in DOMAIN printers : printers[i].ip = ip

DiscoveryTimeout == 5
SettleTime == 1
ProbeTimeout == 1

envVars == <<local_octet, reachable, adverts, drops>>

\* the clock starts again at 0 with a new call: what is left of the wait of
\* a call still running is counted from there
Rebased(call, now) ==
    IF call.pc = "idle" THEN call ELSE [call EXCEPT !.deadline = @ - now]

\* discover_printers up to its first suspension: the reset, AsyncZeroconf(),
\* the four ServiceBrowsers, and _scan_network_range up to gather (without a
\* local address the scan returns at once and the call waits for the event)
DiscoverStart ==
    /\ dpc = "idle" /\ scan_hold = Absent
    /\ printers' = <<>>
    /\ discovered_event' = FALSE
    /\ zeroconf' = "open"
    /\ pending_ads' = adverts
    /\ elapsed' = 0 /\ scan_aged' = 0 /\ last_find' = Absent
    /\ IF local_octet = 0
       THEN /\ dpc' = "waiting"
            /\ deadline' = DiscoveryTimeout
            /\ UNCHANGED <<scan_next, scan_dead, scan_live>>
       ELSE /\ dpc' = "scanning"
            /\ deadline' = 0
            /\ LET n == SemaphoreAdmits(ScanTaskCount(local_octet), 0)
                    conn == {k \in 1..n : ScanTask(local_octet, k) \in reachable}
               IN  /\ scan_next' = n + 1
                   /\ scan_live' = conn
                   /\ scan_dead' = n - Cardinality(conn)
    /\ other' = Rebased(other, elapsed)
    /\ UNCHANGED <<linkVars, blocking, envVars, bhold, scan_hold, result>>

\* AsyncZeroconf() raises: the except clause logs, the finally clause finds
\* in self.zeroconf what an earlier call left there
DiscoverOpenFails ==
    /\ dpc = "idle" /\ scan_hold = Absent
    /\ printers' = <<>>
    /\ discovered_event' = FALSE
    /\ elapsed' = 0 /\ deadline' = 0 /\ last_find' = Absent
    /\ dpc' = "closing"
    /\ other' = Rebased(other, elapsed)
    /\ UNCHANGED <<linkVars, blocking, envVars, zeroconf, pending_ads, bhold, scan_next, scan_dead,
                   scan_live, scan_hold, scan_aged, result>>

\* ServiceBrowser() raises after k browsers were started
DiscoverBrowseFails(k) ==
    /\ dpc = "idle" /\ scan_hold = Absent
    /\ printers' = <<>>
    /\ discovered_event' = FALSE
    /\ zeroconf' = "open"
    /\ pending_ads' = {ad \in adverts : \E i \in 1..k : ad.type = service_types[i]}
    /\ elapsed' = 0 /\ deadline' = 0 /\ last_find' = Absent
    /\ dpc' = "closing"
    /\ other' = Rebased(other, elapsed)
    /\ UNCHANGED <<linkVars, blocking, envVars, bhold, scan_next, scan_dead, scan_live, scan_hold,
                   scan_aged, result>>

\* (mutant) the failure of a probe ends the scan and the call
ScanAborts(failed) == ~failed

\* a failure stays inside its probe: `except Exception: pass` of
\* _check_bambu_printer (and gather collects what would escape)
ScanContains(failed) == TRUE

\* a probe is refused, or times out after ProbeTimeout: the except branch
ProbeFails ==
    /\ dpc = "scanning" /\ scan_hold = Absent /\ scan_dead > 0
    /\ drops => scan_aged > 0
    /\ scan_aged' = IF scan_aged > 0 THEN scan_aged - 1 ELSE 0
    /\ IF ScanContains(TRUE)
       THEN /\ ScanAdmit(scan_dead - 1, scan_live)
            /\ dpc' = dpc
       ELSE /\ dpc' = "closing"
            /\ UNCHANGED <<scan_next, scan_dead, scan_live>>
    /\ UNCHANGED <<linkVars, blocking, other, envVars, printers, discovered_event, zeroconf, pending_ads,
                   bhold, scan_hold, result, elapsed, deadline, last_find>>

\* a probe connects: the printer is built and looked up in the list
ProbeConnects(k) ==
    /\ dpc = "scanning" /\ scan_hold = Absent /\ k \in scan_live
    /\ LET host == ScanTask(local_octet, k)[1]
           port == ScanTask(local_octet, k)[2]
           printer == BambuPrinter("Bambu-" \o ToString(host), IpOf(host), port,
                                   "Bambu A1 mini")
       IN  IF Known(printer.ip)
           THEN /\ ScanAdmit(scan_dead, scan_live \ {k})
                /\ scan_hold' = scan_hold
           ELSE /\ scan_hold' = Some([task |-> k, printer |-> printer])
                /\ UNCHANGED <<scan_next, scan_dead, scan_live>>
    /\ UNCHANGED <<linkVars, blocking, other, envVars, printers, discovered_event, zeroconf, pending_ads,
                   bhold, dpc, result, elapsed, deadline, scan_aged, last_find>>

\* ... and appended, and the event is set
ProbeAppends ==
    /\ scan_hold # Absent
    /\ printers' = Append(printers, scan_hold[1].printer)
    /\ discovered_event' = TRUE
    /\ last_find' = Some(elapsed)
    /\ scan_hold' = Absent
    /\ ScanAdmit(scan_dead, scan_live \ {scan_hold[1].task})
    /\ UNCHANGED <<linkVars, blocking, other, envVars, zeroconf, pending_ads, bhold, dpc, result, elapsed,
                   deadline, scan_aged>>

ScanDone == scan_next > ScanTaskCount(local_octet) /\ InFlight = 0

\* gather returns; wait_for(discovered_event.wait(), timeout) follows and
\* returns at once when the event is set already; then sleep(1)
ScanReturns ==
    /\ dpc = "scanning" /\ scan_hold = Absent
    /\ ScanDone
    /\ dpc' = IF discovered_event THEN "settling" ELSE "waiting"
    /\ deadline' = elapsed + (IF discovered_event THEN SettleTime ELSE DiscoveryTimeout)
    /\ UNCHANGED <<linkVars, blocking, other, envVars, printers, discovered_event, zeroconf, pending_ads,
                   bhold, scan_next, scan_dead, scan_live, scan_hold, result, elapsed,
                   scan_aged, last_find>>

WaitWakes ==
    /\ dpc = "waiting" /\ scan_hold = Absent /\ discovered_event
    /\ dpc' = "settling"
    /\ deadline' = elapsed + SettleTime
    /\ UNCHANGED <<linkVars, blocking, other, envVars, printers, discovered_event, zeroconf, pending_ads,
                   bhold, scan_next, scan_dead, scan_live, scan_hold, result, elapsed,
                   scan_aged, last_find>>

WaitTimesOut ==
    /\ dpc = "waiting" /\ scan_hold = Absent /\ elapsed >= deadline
    /\ dpc' = "settling"
    /\ deadline' = elapsed + SettleTime
    /\ UNCHANGED <<linkVars, blocking, other, envVars, printers, discovered_event, zeroconf, pending_ads,
                   bhold, scan_next, scan_dead, scan_live, scan_hold, result, elapsed,
                   scan_aged, last_find>>

\* (mutant) a finally clause that leaves self.zeroconf as it is
FinallyKeeps(zc) == zc

\* `if self.zeroconf: await self.zeroconf.async_close()`
Finally(zc) == IF zc # "none" THEN "closed" ELSE zc

\* (mutant) an except clause that raises again: the caller gets no list
AfterExceptReraises(list) == <<list, "raised">>

\* what the caller gets when the try block raised: `except Exception as e`
\* logs and falls through to `return self.listener.printers.copy()`
AfterExcept(list) == Some(list)

\* after sleep(1), or after the except clause: the finally clause closes
\* zeroconf, the copy is returned
DiscoverReturns ==
    /\ scan_hold = Absent
    /\ dpc = "closing" \/ (dpc = "settling" /\ elapsed >= deadline)
    /\ zeroconf' = Finally(zeroconf)
    /\ result' = IF dpc = "closing" THEN AfterExcept(printers) ELSE Some(printers)
    /\ dpc' = "idle"
    /\ scan_next' = 1
    /\ UNCHANGED <<linkVars, blocking, other, envVars, printers, discovered_event, pending_ads, bhold,
                   scan_dead, scan_live, scan_hold, elapsed, deadline, scan_aged, last_find>>

\* a second passes while discover_printers is suspended: no probe stays in
\* flight beyond its timeout, a connection or a refusal takes less than a
\* second, and a due wake-up is not delayed
Tick ==
    /\ dpc \in {"scanning", "waiting", "settling"} \/ other.pc # "idle"
    /\ scan_hold = Absent
    /\ dpc = "scanning" =>
          /\ ~ScanDone /\ scan_aged = 0 /\ scan_live = {}
          /\ ~drops => scan_dead = 0
    /\ dpc = "waiting" => ~discovered_event /\ elapsed < deadline
    /\ dpc = "settling" => elapsed < deadline
    /\ other.pc = "waiting" => ~discovered_event /\ elapsed < other.deadline
    /\ other.pc = "settling" => elapsed < other.deadline
    /\ elapsed' = elapsed + ProbeTimeout
    /\ scan_aged' = scan_dead
    /\ UNCHANGED <<linkVars, blocking, other, envVars, printers, discovered_event, zeroconf, pending_ads,
                   bhold, dpc, scan_next, scan_dead, scan_live, scan_hold, result,
                   deadline, last_find>>

\* add_service in the thread of the advertisement's ServiceBrowser, up to
\* the duplicate test
AddServiceChecks(ad) ==
    /\ zeroconf = "open" /\ ad \in pending_ads /\ bhold[ad.type] = Absent
    /\ pending_ads' = pending_ads \ {ad}
    /\ IF ad.addr = Absent
       THEN bhold' = bhold
       ELSE LET printer == BambuPrinter(Head(ad.name), IpOf(ad.addr[1]), ad.port,
                                        IF ad.model # Absent /\ ad.model # <<"">>
                                        THEN ad.model[1] ELSE "Bambu A1 mini")
            IN  bhold' = IF Known(printer.ip) THEN bhold
                         ELSE [bhold EXCEPT ![ad.type] = Some(printer)]
    /\ UNCHANGED <<linkVars, blocking, other, envVars, printers, discovered_event, zeroconf, dpc,
                   scan_next, scan_dead, scan_live, scan_hold, result, elapsed, deadline,
                   scan_aged, last_find>>

\* ... and the append, and discovered_event.set()
AddServiceAppends(b) ==
    /\ bhold[b] # Absent
    /\ printers' = Append(printers, bhold[b][1])
    /\ discovered_event' = TRUE
    /\ last_find' = Some(elapsed)
    /\ bhold' = [bhold EXCEPT ![b] = Absent]
    /\ UNCHANGED <<linkVars, blocking, other, envVars, zeroconf, pending_ads, dpc, scan_next, scan_dead,
                   scan_live, scan_hold, result, elapsed, deadline, scan_aged>>

\* a second call of discover_printers on the shared discovery_service begins
\* while the first is suspended, on a machine without local address (its
\* _scan_network_range returns at once): the reset of the shared list and
\* event, a new AsyncZeroconf bound to self.zeroconf, four new browsers, and
\* the wait for the event
OtherStart ==
    /\ other.pc = "idle" /\ dpc \in {"waiting", "settling"}
    /\ local_octet = 0 /\ scan_hold = Absent
    /\ printers' = <<>>
    /\ discovered_event' = FALSE
    /\ zeroconf' = "open"
    /\ pending_ads' = adverts
    /\ other' = [pc |-> "waiting", deadline |-> elapsed + DiscoveryTimeout,
                 result |-> other.result]
    /\ UNCHANGED <<linkVars, blocking, envVars, bhold, dpc, scan_next, scan_dead, scan_live,
                   scan_hold, result, elapsed, deadline, scan_aged, last_find>>

\* its wait_for ends, by the event or by the timeout; sleep(1) follows
OtherWaitEnds ==
    /\ other.pc = "waiting"
    /\ discovered_event \/ elapsed >= other.deadline
    /\ other' = [other EXCEPT !.pc = "settling", !.deadline = elapsed + SettleTime]
    /\ UNCHANGED <<linkVars, blocking, envVars, printers, discovered_event, zeroconf,
                   pending_ads, bhold, dpc, scan_next, scan_dead, scan_live, scan_hold,
                   result, elapsed, deadline, scan_aged, last_find>>

\* its finally clause closes what self.zeroconf holds now, and it returns
\* the copy of the shared list
OtherReturns ==
    /\ other.pc = "settling" /\ elapsed >= other.deadline
    /\ zeroconf' = Finally(zeroconf)
    /\ other' = IdleCall(Some(printers))
    /\ UNCHANGED <<linkVars, blocking, envVars, printers, discovered_event, pending_ads,
                   bhold, dpc, scan_next, scan_dead, scan_live, scan_hold, result,
                   elapsed, deadline, scan_aged, last_find>>

\* task t, running on the event loop's thread, has entered a call that
\* returns only when its network exchange is over: the ftplib calls of
\* _upload_file_ftp, or paho's connect() in connect_mqtt.  Neither is
\* awaited, so the thread stays in the call; what the call does to the
\* state is part of the action of t that goes on from there.
EntersBlockingCall(t, call) ==
    /\ pc[t] = "idle" /\ blocking = Absent /\ Configured
    /\ call = "ftp" => nextJob < MaxJobs
    /\ call = "connect" => mqtt_client = None /\ HasFreeClient
    /\ blocking' = Some([task |-> t, call |-> call])
    /\ UNCHANGED <<linkVars, discVars>>

\* the network loop's threads
LoopStep ==
    \/ \E c \in ClientIds, rc \in {0, 5} : OnMqttConnect(c, rc)
    \/ \E c \in ClientIds : OnMqttDisconnect(c)

ConnectStep(T) ==
    \/ \E t \in T : ConnectMqttNotConfigured(t)
    \/ \E t \in T : ConnectMqttRaises(t)
    \/ \E t \in T : ConnectMqttSleeps(t)
    \/ \E t \in T : ConnectMqttResume(t)

DisconnectStep(T) == \E t \in T : Disconnect(t)

StatusStep(T) ==
    \/ \E t \in T : GetStatusCached(t)
    \/ \E t \in T : GetStatusNotConfigured(t)
    \/ \E t \in T : GetStatusConnectRaises(t)
    \/ \E t \in T : GetStatusConnectSleeps(t)
    \/ \E t \in T : GetStatusResume(t)

SubmitStep(T) ==
    \/ \E t \in T : SubmitFileNotFound(t)
    \/ \E t \in T : SubmitNotConfigured(t)
    \/ \E t \in T, name \in PrintNames, o \in FtpOutcomes : SubmitUploadFails(t, name, o)
    \/ \E t \in T, name \in PrintNames, o \in FtpOutcomes : SubmitPublishExisting(t, name, o)
    \/ \E t \in T, name \in PrintNames, o \in FtpOutcomes : SubmitConnectRaises(t, name, o)
    \/ \E t \in T, name \in PrintNames, o \in FtpOutcomes : SubmitConnectSleeps(t, name, o)
    \/ \E t \in T : SubmitResume(t)

\* the telemetry callback, on every body of Bodies
MessageStep ==
    \/ \E c \in ClientIds, body \in Bodies : OnMqttMessageBegin(c, body)
    \/ \E c \in ClientIds : OnMqttMessageEnd(c)

\* Job submission and the life of the link
Next == LoopStep \/ DisconnectStep(Tasks) \/ StatusStep(Tasks) \/ SubmitStep(Tasks)

Spec == Init /\ [][Next]_vars

\* Telemetry: the link's loop threads writing the cache, one task reading it
Readers == {1}

NextTelemetry ==
    \/ LoopStep \/ ConnectStep(Readers) \/ DisconnectStep(Readers)
    \/ StatusStep(Readers) \/ MessageStep

SpecTelemetry == Init /\ [][NextTelemetry]_vars

\* The event loop's thread and the blocking calls made on it
NextLoop ==
    \/ \E t \in Tasks, call \in {"ftp", "connect"} : EntersBlockingCall(t, call)
    \/ StatusStep(Tasks)
    \/ SubmitStep(Tasks)

SpecLoop == Init /\ [][NextLoop]_vars

\* Discovery, on five networks
Advert(type, label, addr, port, model) ==
    [type |-> type, name |-> <<label, type>>, addr |-> addr, port |-> port,
     model |-> model]

Scenarios ==
    {\* no local address; one device advertised under two service types
     [local_octet |-> 0, reachable |-> {}, drops |-> FALSE,
      adverts |-> {Advert("_bambu._tcp.local.", "A1-Mini", Some(101), 8883, Some("A1M")),
                   Advert("_http._tcp.local.", "A1-Mini-web", Some(101), 80, Absent)}],
     \* one device, advertised and answering on two ports; the other
     \* addresses refuse
     [local_octet |-> 100, reachable |-> {<<101, 8883>>, <<101, 80>>}, drops |-> FALSE,
      adverts |-> {Advert("_bambu._tcp.local.", "A1-Mini", Some(101), 8883, Some("A1M"))}],
     \* two hosts answering at the low end of a clipped window, the others
     \* silent; an advertisement without address
     [local_octet |-> 1, reachable |-> {<<2, 8883>>, <<3, 80>>}, drops |-> TRUE,
      adverts |-> {Advert("_ipp._tcp.local.", "Laser", Absent, 631, Absent)}],
     \* nothing there
     [local_octet |-> 254, reachable |-> {}, drops |-> TRUE, adverts |-> {}],
     \* one advertised device that answers on none of the four ports; every
     \* probe times out
     [local_octet |-> 100, reachable |-> {}, drops |-> TRUE,
      adverts |-> {Advert("_bambu._tcp.local.", "A1-Mini", Some(101), 8899, Some("A1M"))}]}

InitDiscovery ==
    /\ LinkInit /\ printer_ip /\ access_code /\ device_serial = "SN1"
    /\ \E sc \in Scenarios : DiscInit(sc)
    /\ blocking = Absent

NextDiscovery ==
    \/ DiscoverStart
    \/ DiscoverOpenFails
    \/ \E k \in 0..(Len(service_types) - 1) : DiscoverBrowseFails(k)
    \/ Tick
    \/ ProbeFails
    \/ \E k \in scan_live : ProbeConnects(k)
    \/ ProbeAppends
    \/ ScanReturns
    \/ WaitWakes
    \/ WaitTimesOut
    \/ DiscoverReturns
    \/ \E ad \in pending_ads : AddServiceChecks(ad)
    \/ \E b \in ServiceTypes : AddServiceAppends(b)

SpecDiscovery == InitDiscovery /\ [][NextDiscovery]_vars

\* Two overlapping calls of discover_printers, on machines without local
\* address
OverlapScenarios ==
    {sc \in Scenarios : sc.local_octet = 0} \cup
    {\* two devices, each advertised once
     [local_octet |-> 0, reachable |-> {}, drops |-> FALSE,
      adverts |-> {Advert("_bambu._tcp.local.", "A1-Mini", Some(101), 8883, Some("A1M")),
                   Advert("_printer._tcp.local.", "X1C", Some(102), 8883, Some("X1C"))}]}

InitOverlap ==
    /\ LinkInit /\ printer_ip /\ access_code /\ device_serial = "SN1"
    /\ \E sc \in OverlapScenarios : DiscInit(sc)
    /\ blocking = Absent

NextOverlap ==
    \/ DiscoverStart
    \/ Tick
    \/ WaitWakes
    \/ WaitTimesOut
    \/ DiscoverReturns
    \/ \E ad \in pending_ads : AddServiceChecks(ad)
    \/ \E b \in ServiceTypes : AddServiceAppends(b)
    \/ OtherStart
    \/ OtherWaitEnds
    \/ OtherReturns

SpecOverlap == InitOverlap /\ [][NextOverlap]_vars

----------------------------------------------------------------------------
(* Properties of send_print_job, over the history in log (specification Spec) *)

Events(kind, job) == {i \in DOMAIN log : log[i].ev = kind /\ log[i].job = job}
Jobs == 1..nextJob

\* C1: the start command is published only after the transfer of the same
\* submission completed successfully; a submission whose transfer failed
\* publishes nothing and returns the transfer error.
C1_PublishOnlyAfterUpload ==
    /\ \A i \in DOMAIN log : log[i].ev = "publish" =>
            \E k \in Events("upload", log[i].job) : k < i /\ log[k].ok
    /\ \A k \in DOMAIN log : (log[k].ev = "upload" /\ ~log[k].ok) =>
            /\ Events("publish", log[k].job) = {}
            /\ \E r \in Events("return", log[k].job) : ~log[r].ok /\ log[r].err = ErrUpload

\* a failed transfer has happened, and so has a publish of another submission
C1_Witness ==
    \E k, i \in DOMAIN log :
        /\ log[k].ev = "upload" /\ ~log[k].ok
        /\ log[i].ev = "publish" /\ k < i

\* C2: when the connect_mqtt made by the command step fails, the submission
\* returns the connectivity error and publishes nothing.
C2_FailedConnectFailsSubmit ==
    \A k \in DOMAIN log : (log[k].ev = "connect" /\ ~log[k].ok) =>
        /\ Events("publish", log[k].job) = {}
        /\ \A r \in Events("return", log[k].job) : ~log[r].ok /\ log[r].err = ErrMqtt

\* the link counts as not connected when there is no client, when the
\* client's connect() raised, when the broker refused it and when it dropped
NotConnected(link) == link \in {"none", "created", "refused", "dropped", "closed"}

\* C3: a submission that reaches the command step while the link is not
\* connected makes a connect attempt before it publishes.
C3_ConnectBeforePublish ==
    \A i \in DOMAIN log : log[i].ev = "publish" =>
        \A k \in Events("upload", log[i].job) :
            NotConnected(log[k].link) =>
                \E a \in Events("connect", log[i].job) : k < a /\ a < i

\* C10: a submission that returned successfully uploaded {printName}.3mf and
\* called publish exactly once, on device/{serial}/request, with that file
\* name as parameter and its own job identifier as sequence_id.
C10_SuccessfulSubmit ==
    \A r \in DOMAIN log : (log[r].ev = "return" /\ log[r].ok) =>
        LET job == log[r].job
            file == log[r].name \o ".3mf"
        IN  /\ \E u \in Events("upload", job) : log[u].ok /\ log[u].file = file /\ u < r
            /\ Cardinality(Events("publish", job)) = 1
            /\ \A i \in Events("publish", job) :
                    /\ i < r
                    /\ log[i].topic = <<"device", device_serial, "request">>
                    /\ log[i].cmd.command = "project_file"
                    /\ log[i].cmd.param = file
                    /\ log[i].cmd.sequence_id = job

\* two submissions with different print names have both returned successfully
C10_Witness ==
    \E r1, r2 \in DOMAIN log :
        /\ log[r1].ev = "return" /\ log[r1].ok
        /\ log[r2].ev = "return" /\ log[r2].ok
        /\ log[r1].name = "Vase" /\ log[r2].name = "Cube"

----------------------------------------------------------------------------
(* Properties of the telemetry cache (specification SpecTelemetry) *)

\* C6: what a status reader gets from the cache, at any moment of any
\* callback, is the initial entry or the snapshot built from one message.
C6_NoTornSnapshot ==
    /\ printer_status \in {InitialStatus} \cup events
    /\ (ret # Absent /\ ret[1].op = "status") =>
            ret[1].val[1] \in {InitialStatus, DisconnectedResult} \cup events

\* a reader got the first snapshot while a callback holds a second, different
\* one that it has built and not assigned yet
C6_Witness ==
    /\ ret # Absent /\ ret[1].op = "status" /\ ret[1].val[1] \in events
    /\ printer_status = ret[1].val[1]
    /\ \E c \in ClientIds :
            /\ clients[c].cb # Absent /\ clients[c].cb[1].new # Absent
            /\ clients[c].cb[1].new[1].status # printer_status.status

\* a body that cannot be decoded or lacks the "print" object
Malformed(body) ==
    \/ body.kind # "object"
    \/ body.print = Absent
    \/ ~body.print[1].isdict

\* C7: the callback of a malformed message ends with the cache as it was.
C7_MalformedDropped ==
    [][\A c \in ClientIds :
          (/\ clients[c].cb # Absent /\ clients'[c].cb = Absent
           /\ Malformed(clients[c].cb[1].msg.body))
          => printer_status' = printer_status]_vars

\* the state code of the message behind the cache entry, Absent when the
\* message has no "print" object or no gcode_state
StoredPrint == IF stored[1].body.print = Absent THEN EmptyPrint ELSE stored[1].body.print[1].d

\* C8: the status of a cache entry is given by the state code of its message
\* alone: RUNNING printing, PAUSE paused, FINISH finished, FAILED failed,
\* everything else idle.
C8_StatusMapping ==
    stored # Absent =>
        LET g == StoredPrint.gcode_state
            s == printer_status.status
        IN  /\ g = <<"RUNNING">> => s = "printing"
            /\ g = <<"PAUSE">> => s = "paused"
            /\ g = <<"FINISH">> => s = "finished"
            /\ g = <<"FAILED">> => s = "failed"
            /\ g \notin {<<"RUNNING">>, <<"PAUSE">>, <<"FINISH">>, <<"FAILED">>} => s = "idle"

\* a FINISH report was stored over an earlier entry
C8_Witness ==
    /\ stored # Absent /\ StoredPrint.gcode_state = <<"FINISH">>
    /\ printer_status.status = "finished" /\ printer_status.last_updated = 2

\* C9: after a report is processed the entry has the mapped status, the
\* report's mc_percent as progress, and a job descriptor exactly when the
\* report's subtask_name is a non-empty string.
C9_SnapshotFields ==
    stored # Absent =>
        LET d == StoredPrint
            named == d.subtask_name # Absent /\ d.subtask_name # <<"">>
        IN  /\ d.gcode_state = <<"RUNNING">> => printer_status.status = "printing"
            /\ d.mc_percent # Absent => printer_status.progress = d.mc_percent[1]
            /\ named <=> printer_status.current_job # Absent
            /\ named =>
                  /\ printer_status.current_job[1].name = d.subtask_name[1]
                  /\ d.layer_num # Absent =>
                        printer_status.current_job[1].layer = d.layer_num[1]
                  /\ d.total_layer_num # Absent =>
                        printer_status.current_job[1].total_layers = d.total_layer_num[1]

\* scenario C: RUNNING, mc_percent 42, subtask_name "Vase"
C9_Witness ==
    /\ stored # Absent
    /\ StoredPrint.gcode_state = <<"RUNNING">> /\ StoredPrint.mc_percent = <<42>>
    /\ StoredPrint.subtask_name = <<"Vase">>
    /\ printer_status.status = "printing" /\ printer_status.progress = 42
    /\ printer_status.current_job # Absent

----------------------------------------------------------------------------
(* Properties of discovery (specification SpecDiscovery)                     *)

\* the list the last call of discover_printers returned
Returned == IF result = Absent THEN <<>> ELSE result[1]

\* C4: whatever the interleaving of advertisement callbacks and successful
\* probes, the list discover_printers returns has no two entries with the
\* same address.
C4_NoDuplicateAddress ==
    \A i, j \in DOMAIN Returned : i # j => Returned[i].ip # Returned[j].ip

\* C5: at every point of a network scan at most 20 connection attempts are
\* started and not yet finished, whatever the window.
C5_BoundedScan == scan_dead + Cardinality(scan_live) <= 20

\* the semaphore is full while tasks of the scan still wait for it
C5_Witness ==
    /\ dpc = "scanning"
    /\ scan_dead + Cardinality(scan_live) = 20
    /\ scan_next <= ScanTaskCount(local_octet)
    /\ scan_next > 21

----------------------------------------------------------------------------
(* Properties of the Device Link's configuration and disconnection           *)

\* C14: once a link was disconnected, by disconnect() or by the transport's
\* disconnect callback, its client handle is not retained and its network
\* loop does not run.
C14_DisconnectReleases ==
    \A c \in ClientIds :
        clients[c].st \in {"closed", "dropped"} => mqtt_client # c /\ ~clients[c].loop

\* C15: disconnect() always succeeds and leaves no handle; called on a link
\* without handle (never connected, or disconnected before) it changes
\* nothing of the link.
C15_DisconnectIdempotent ==
    [][\A t \in Tasks :
         Disconnect(t) =>
            /\ mqtt_client' = None
            /\ ret'[1].ok
            /\ mqtt_client = None =>
                  UNCHANGED <<clients, printer_status, log, nextJob, pc, loc>>]_vars

\* disconnect() has returned from a call on a link it had disconnected before
C15_Witness ==
    /\ ret = Return("disconnect", TRUE, "", 0, Some([link |-> "none"]))
    /\ mqtt_client = None
    /\ \E c \in ClientIds : clients[c].st = "closed"

\* C16: without address or without access code no client is ever created
\* and the link stays disconnected; connect_mqtt reports the failure.
C16_UnconfiguredConnectFails ==
    ~(printer_ip /\ access_code) =>
        /\ mqtt_client = None
        /\ \A c \in ClientIds : clients[c] = NoClientRec
        /\ (ret # Absent /\ ret[1].op = "connect") => ~ret[1].ok

\* connect_mqtt has returned False on a service that has the address only
C16_Witness ==
    /\ printer_ip /\ ~access_code
    /\ ret = Return("connect", FALSE, "", 0, Absent)

\* C17: a transfer or a publish of send_print_job happens only when address,
\* access code and device serial are all configured.
C17_SubmitNeedsAllSettings ==
    \A i \in DOMAIN log :
        log[i].ev \in {"upload", "publish"} =>
            printer_ip /\ access_code /\ device_serial # "default_serial"

\* C18: send_print_job on a file that does not exist fails with the
\* not-found error whatever the configuration, and that failure leaves link,
\* cache, transfers and publishes as they were.
C18_NotFoundFirst ==
    /\ [](ret # Absent /\ ret[1].op = "submit" /\ ret[1].val = Some([exists |-> FALSE])
            => ~ret[1].ok /\ ret[1].err = ErrNotFound)
    /\ [][\A t \in Tasks :
            SubmitFileNotFound(t) =>
                UNCHANGED <<mqtt_client, clients, printer_status, stored, log, nextJob>>]_vars

\* the not-found failure has been returned by a service that is not
\* configured either
C18_Witness ==
    /\ ~Configured
    /\ ret = Return("submit", FALSE, ErrNotFound, 0, Some([exists |-> FALSE]))

----------------------------------------------------------------------------
(* Properties of the timing, the teardown and the scan of discover_printers  *)
(* (specification SpecDiscovery; `elapsed` counts seconds since the call)    *)

\* C11: a call of discover_printers is over as soon as the timeout has
\* elapsed or a printer was found and a second has passed without a new
\* find.  Stated with the settling second granted after the timeout too:
\* while the call runs, no more than timeout + 1 seconds have elapsed, and no
\* more than 1 second since the last find.
C11_ReturnsOnFirstCondition ==
    dpc # "idle" =>
        /\ elapsed <= 5 + 1
        /\ last_find # Absent => elapsed <= last_find[1] + 1

\* C12: on a network with one advertised device where every probe times
\* out, discover_printers(timeout=5) has returned after at most 6 seconds,
\* with no more than that device.
C12_LatencyCeiling ==
    (/\ dpc = "idle" /\ result # Absent
     /\ Cardinality(adverts) = 1 /\ reachable = {} /\ drops /\ local_octet # 0)
        => elapsed <= 6 /\ Len(Returned) <= 1

C19_ScanNeverFails ==
    /\ (dpc \in {"waiting", "settling"} /\ local_octet # 0) =>
            scan_next = ScanTaskCount(local_octet) + 1 /\ InFlight = 0
    /\ dpc = "closing" => scan_next = 1 /\ InFlight = 0

\* a scan in which every probe timed out has ended and found nothing;
\* discover_printers waits for the event
C19_Witness ==
    /\ dpc = "waiting" /\ local_octet # 0 /\ drops /\ reachable = {}
    /\ scan_next = ScanTaskCount(local_octet) + 1
    /\ printers = <<>> /\ elapsed > 0

\* C20: the pairs a finished scan has probed are the hosts whose last octet
\* lies in o-25..o+25 and in 1..254, each on the ports 8883, 1883, 80, 443.
C20_ScanWindow ==
    (dpc \in {"waiting", "settling"} /\ local_octet # 0) =>
        {ScanTask(local_octet, k) : k \in 1..(scan_next - 1)}
            = ({h \in 1..254 : local_octet - 25 <= h /\ h <= local_octet + 25}
                 \X {8883, 1883, 80, 443})

----------------------------------------------------------------------------
(* Properties of the link's connections and of what status queries return    *)
(* (specification SpecTelemetry)                                             *)

\* C21: at most one client's network loop, the context that delivers
\* messages to _on_mqtt_message and replaces the cache, is alive at a time.
C21_SingleWriter == Cardinality({c \in ClientIds : clients[c].loop}) <= 1

\* some client's connection was accepted (its subscription was issued)
EverConnected == \E c \in ClientIds : clients[c].subs # {}

\* C22: get_printer_status returns the cache only after a connection of the
\* link has succeeded; before, it returns the disconnected result.
C22_NoCacheBeforeConnection ==
    (ret # Absent /\ ret[1].op = "status" /\ ~EverConnected) =>
        ret[1].val = Some(DisconnectedResult)

\* no message with a print section has been stored: nothing was stored, or
\* the only message received so far was a report without "print"
NoTelemetryYet == stored = Absent \/ (clock = 1 /\ stored[1].body.print = Absent)

\* C23: as long as no telemetry has been processed, the status returned by
\* get_printer_status is none of idle, printing, paused, finished, failed.
C23_NoTelemetryDistinct ==
    (ret # Absent /\ ret[1].op = "status" /\ NoTelemetryYet) =>
        ret[1].val[1].status \notin {"idle", "printing", "paused", "finished", "failed"}

\* C28: connect_mqtt returns True only when the connection was accepted and
\* the report topic subscribed.
C28_ConnectReportsLink ==
    (ret # Absent /\ ret[1].op = "connect" /\ ret[1].ok) =>
        \E c \in ClientIds : ReportTopic(device_serial) \in clients[c].subs

----------------------------------------------------------------------------
(* Further properties of send_print_job and of the cache                     *)

\* C25: the FTP connection of a transfer is closed when the transfer is
\* over, whether it succeeded or failed at connect, login or STOR; every
\* transfer has its own.
C25_TransferConnectionClosed ==
    \A k \in DOMAIN log : log[k].ev = "upload" =>
        /\ log[k].conn # "open"
        /\ log[k].ok => log[k].conn = "closed"
        /\ \A i \in Events("upload", log[k].job) : i = k

\* a transfer failed after its connection was opened, and a later
\* submission made a transfer of its own
C25_Witness ==
    \E k, i \in DOMAIN log :
        /\ log[k].ev = "upload" /\ ~log[k].ok /\ log[k].conn = "closed"
        /\ log[i].ev = "upload" /\ log[i].ok /\ k < i

\* C26: every entry stored in the cache has a progress within 0..100.
C26_ProgressInRange == stored # Absent => printer_status.progress \in 0..100

\* C27: each failure of send_print_job reaches the caller as the error of
\* its own category, and the four errors differ: missing file, missing
\* configuration, failed transfer, failed connection of the link.
C27_DistinctErrorKinds ==
    /\ Cardinality({ErrNotFound, ErrConfig, ErrUpload, ErrMqtt}) = 4
    /\ (ret # Absent /\ ret[1].op = "submit" /\ ret[1].val # Absent) =>
            ret[1].err = IF ret[1].val[1].exists THEN ErrConfig ELSE ErrNotFound
    /\ \A j \in Jobs : \A r \in Events("return", j) :
            /\ (\E k \in Events("upload", j) : ~log[k].ok) => log[r].err = ErrUpload
            /\ (\E k \in Events("connect", j) : ~log[k].ok) => log[r].err = ErrMqtt

----------------------------------------------------------------------------
(* Further properties of discovery (specification SpecDiscovery)             *)

C30_ScannerEntryModel ==
    \A i \in DOMAIN printers :
        printers[i].name \in {"Bambu-" \o ToString(h) : h \in 1..254} =>
            /\ printers[i].ip = IpOf(CHOOSE h \in 1..254 :
                                        printers[i].name = "Bambu-" \o ToString(h))
            /\ printers[i].model = "unknown"

----------------------------------------------------------------------------
(* The event loop (specification SpecLoop)                                   *)

\* C24: while a task is inside the file transfer of send_print_job or
\* inside the connect of the link, every other task that is ready to run can
\* take a step (here: begin a status query or a submission).
C24_BlockingSuspendsOnlyCaller ==
    blocking # Absent =>
        \A u \in Tasks \ {blocking[1].task} :
            pc[u] = "idle" => ENABLED (StatusStep({u}) \/ SubmitStep({u}))

\* C33: every client of the Device Link holds at most the one subscription
\* device/{serial}/report, and a client whose connection was not acknowledged
\* with result code 0 (never acknowledged, or rejected) holds none
C33_SubscribesOnSuccessOnly ==
    \A c \in ClientIds :
        /\ clients[c].subs \subseteq {ReportTopic(device_serial)}
        /\ clients[c].st \in {"none", "created", "connecting", "refused"}
                => clients[c].subs = {}

C33_Witness ==
    /\ \E c \in ClientIds : clients[c].st = "refused" /\ clients[c].subs = {}
    /\ \E c \in ClientIds : /\ clients[c].st = "connected"
                            /\ clients[c].subs = {ReportTopic(device_serial)}

\* C32: the cache entry left by a report is determined by that report alone
\* and the time it was processed: every field the report lacks holds its
\* default (state idle, numbers 0, no job), whatever the entry before held
C32_WholesaleReplace ==
    stored # Absent =>
        LET d == StoredPrint
        IN  /\ \E t \in 1..clock : printer_status = BuildStatus(d, t)
            /\ d.gcode_state = Absent => printer_status.status = "idle"
            /\ d.mc_percent = Absent => printer_status.progress = 0
            /\ d.bed_temper = Absent => printer_status.bed_temp = 0
            /\ d.nozzle_temper = Absent => printer_status.nozzle_temp = 0
            /\ d.subtask_name = Absent => printer_status.current_job = Absent

\* a report without job and progress was stored after one that had both
C32_Witness ==
    /\ stored # Absent /\ clock = 2 /\ printer_status.last_updated = 2
    /\ \A c \in ClientIds : clients[c].cb = Absent
    /\ StoredPrint.subtask_name = Absent /\ StoredPrint.mc_percent = Absent
    /\ printer_status.current_job = Absent /\ printer_status.progress = 0
    /\ \E e \in events : /\ e.last_updated = 1
                         /\ e.current_job # Absent /\ e.progress # 0

\* C31: first seen wins: a step that lengthens the result list adds an
\* address the list did not hold, so an address already listed keeps its one
\* entry and no later event for it is signalled as a find
C31_FirstSeenWins ==
    [][Len(printers') > Len(printers) =>
          /\ \A i \in DOMAIN printers : printers'[i] = printers[i]
          /\ ~Known(printers'[Len(printers')].ip)]_vars

\* C34: once discover_printers has returned, and until it is called again,
\* the service's result list stays as it is
C34_QuietAfterReturn ==
    [][(dpc = "idle" /\ dpc' = "idle") => printers' = printers]_vars

\* C35: a call of discover_printers during which a device was found returns
\* a list that is not empty, whatever other call ran on the shared service
\* in the meantime
C35_CallsIsolated ==
    [][(dpc # "idle" /\ dpc' = "idle" /\ last_find # Absent) => result'[1] # <<>>]_vars

====
